---- MODULE Spec2Model ----
(***************************************************************************)
(* Model of server/events/project_command_runner.go: the Plan and Apply    *)
(* operations of DefaultProjectCommandRunner, run by concurrent requests   *)
(* against a shared ProjectLocker, WorkingDirLocker and WorkingDir.        *)
(*                                                                         *)
(* Text (string) values are sequences of tokens, "" is <<>>.  An error is  *)
(* a record [nil, msg]; a *PlanSuccess is a record with a nil flag.        *)
(***************************************************************************)
EXTENDS Integers, Sequences, FiniteSets, Bags, TLC

\* ------------------------------------------------------------------ bounds
\* Number of requests that can be in flight at the same time.
MaxCalls == 3
\* Total number of Plan/Apply requests received in a behaviour.
MaxStarts == 3

\* Pull request numbers, project directories (RepoRelDir) and workspaces the
\* requests are drawn from; all requests are for the same base repository.
Pulls == {1, 2}
Dirs == {1, 2}
Workspaces == {1}

\* ------------------------------------------------------------- text values
EmptyStr == <<>>

NilErr == [nil |-> TRUE, msg |-> EmptyStr]

\* errors.New(msg)
NewError(msg) == [nil |-> FALSE, msg |-> msg]

\* errors.Wrap(err, message): "<message>: <err>"
Wrap(err, message) == NewError(<<message, ": ">> \o err.msg)

\* strings.Join(outputs, "\n")
RECURSIVE Join(_)
Join(outputs) ==
    IF Len(outputs) = 0 THEN EmptyStr
    ELSE IF Len(outputs) = 1 THEN Head(outputs)
    ELSE Head(outputs) \o <<"\n">> \o Join(Tail(outputs))

\* Variant: the outputs come first in the message, then the error.
StepsErrorfOutputsFirst(err, outputs) ==
    NewError(Join(outputs) \o <<"\n">> \o err.msg)

\* fmt.Errorf("%s\n%s", err, strings.Join(outputs, "\n"))
StepsErrorf(err, outputs) == NewError(err.msg \o <<"\n">> \o Join(outputs))

NilPlanSuccess == [nil |-> TRUE, TerraformOutput |-> EmptyStr, LockURL |-> EmptyStr]

\* ------------------------------------------------------- request contexts
BaseRepoFullName == "owner/repo"

ApprovedApplyRequirement == "approved"

\* A stage is a list of step names; NilStage is "no stage configured".
NilStage == [nil |-> TRUE, Steps |-> <<>>]
StageOf(steps) == [nil |-> FALSE, Steps |-> steps]

defaultPlanStage == StageOf(<<"init", "plan">>)

defaultApplyStage == StageOf(<<"apply">>)

\* ctx.ProjectConfig: nil, or a configuration whose workflow resolves to
\* the plan/apply stage `stage` (NilStage when it names no workflow or the
\* workflow has no such stage) and whose ApplyRequirements is `reqs`.
NilProjectConfig == [nil |-> TRUE, stage |-> NilStage, ApplyRequirements |-> <<>>]

\* Project configurations with the given configured stages and apply
\* requirement lists.
ProjectConfigsOf(stepLists, reqLists) ==
    {NilProjectConfig} \cup
    {[nil |-> FALSE, stage |-> s, ApplyRequirements |-> r] :
        s \in {NilStage} \cup {StageOf(st) : st \in stepLists},
        r \in reqLists}

\* -------------------------------------------------------------- GithubClient
\* GithubClient.GetPullRequest: the fetch fails, or returns the pull request
\* with its review state (Approved) and its Mergeable flag.
GetPullRequest ==
    {[err |-> NewError(<<"github: request failed">>), Approved |-> FALSE, Mergeable |-> FALSE]}
    \cup
    {[err |-> NilErr, Approved |-> a, Mergeable |-> m] : a \in BOOLEAN, m \in BOOLEAN}

\* GithubClient.PullIsApproved, applied to the outcome of GetPullRequest.
PullIsApproved(request) ==
    IF ~request.err.nil
    THEN [approved |-> FALSE, err |-> request.err]
    ELSE [approved |-> request.Mergeable, err |-> NilErr]

\* The two scenarios the model is explored in.  With concurrent requests the
\* contexts use the default stages, every step prints and GitHub reports as
\* mergeable the pull requests that are approved; with one request at a
\* time, all on one project directory, the configurations, step outputs,
\* step errors and pull request states vary widely.
Concurrent ==
    [inFlight |-> MaxCalls,
     dirs |-> Dirs,
     configs |-> ProjectConfigsOf({}, {<<ApprovedApplyRequirement>>}),
     requests |-> {r \in GetPullRequest : r.Approved = r.Mergeable},
     outputs |-> {<<"A">>}]

Sequential ==
    [inFlight |-> 1,
     dirs |-> {1},
     configs |-> ProjectConfigsOf({<<>>, <<"bogus">>, <<"bogus", "run">>,
                                   <<"init", "plan", "run">>},
                                  {<<>>, <<ApprovedApplyRequirement>>,
                                   <<"mergeable", ApprovedApplyRequirement>>}),
     requests |-> GetPullRequest,
     outputs |-> {EmptyStr, <<"A">>, <<"B">>}]

\* Errors of a StepRunner.Run call.
StepErrors == {NilErr, NewError(<<"E">>)}

\* models.NewProject(ctx.BaseRepo.FullName, ctx.RepoRelDir) with ctx.Workspace
ProjectKey(c) == <<BaseRepoFullName, c.dir, c.ws>>

\* (ctx.BaseRepo.FullName, ctx.Pull.Num, ctx.Workspace)
WorkingDirKey(c) == <<BaseRepoFullName, c.pull, c.ws>>

ProjectKeys == {<<BaseRepoFullName, d, w>> : d \in Dirs, w \in Workspaces}
WorkingDirKeys == {<<BaseRepoFullName, p, w>> : p \in Pulls, w \in Workspaces}

\* ------------------------------------------------------------------- state
VARIABLES
    projLocks,   \* ProjectLocker: project key -> holding pull number, 0 = free
    wdLocks,     \* WorkingDirLocker: set of held working-directory keys
    cloned,      \* WorkingDir: set of working-directory keys checked out
    RequireApprovalOverride, \* DefaultProjectCommandRunner field
    calls,       \* bag of the Plan/Apply calls in flight, each with its state
    started      \* number of requests received so far

vars == <<projLocks, wdLocks, cloned, RequireApprovalOverride, calls, started>>

NoResult == [set |-> FALSE, PlanSuccess |-> NilPlanSuccess, ApplySuccess |-> EmptyStr,
             Failure |-> EmptyStr, Error |-> NilErr,
             RepoRelDir |-> 0, Workspace |-> 0]

\* A call at its entry: its context, its locals and what it has done so far.
NewCall ==
    [pc |-> "entry", op |-> "none", pull |-> 0, dir |-> 0, ws |-> 0,
     config |-> [nil |-> TRUE, ApplyRequirements |-> <<>>],
                              \* ctx.ProjectConfig as far as doApply's
                              \* requirements read it
     reqs |-> <<>>,           \* apply requirements still to evaluate
     outputs |-> <<>>,        \* runSteps' outputs
     err |-> NilErr,          \* error in hand (cloneErr, err of runSteps)
     LockAcquired |-> FALSE,  \* lockAttempt.LockAcquired
     LockKey |-> <<>>,        \* lockAttempt.LockKey
     regranted |-> FALSE,     \* the pull request already held the lock when
                              \* the attempt was granted
     unlockFnCalls |-> 0,     \* invocations of lockAttempt.UnlockFn
     wdTryLocks |-> 0,        \* calls of WorkingDirLocker.TryLock
     wdHeld |-> FALSE,        \* the call holds the working-directory lock
     wdUnlocks |-> 0,         \* invocations of the deferred unlockFn
     lookups |-> 0,           \* calls of WorkingDir.GetWorkingDir
     clones |-> 0,            \* calls of WorkingDir.Clone
     steps |-> <<>>,          \* the steps of the stage handed to runSteps
     outcomes |-> <<>>,       \* what each step's runner returns when run
     ran |-> <<>>,            \* step names dispatched to a step runner
     approvalChecks |-> 0,    \* calls of PullApprovedChecker.PullIsApproved
     checked |-> <<>>,        \* per call of PullIsApproved: the pull request
                              \* fetched and the answer returned
     hooks |-> <<>>,          \* Success flags of the webhooks sent
     exit |-> "none",         \* the return statement taken
     result |-> NoResult]

Init ==
    /\ projLocks = [k \in ProjectKeys |-> 0]
    /\ wdLocks = {}
    /\ cloned = {}
    /\ RequireApprovalOverride \in BOOLEAN
    /\ calls = EmptyBag
    /\ started = 0


\* ------------------------------------------------------------ collaborators
\* The reason ProjectLocker gives when another pull request holds the lock.
LockedByAnotherPull == <<"This project is currently locked by another pull request.">>

\* A failure of WorkingDir.GetWorkingDir other than not-exist.
LookupError == NewError(<<"permission denied">>)

\* ProjectLocker.TryLock: the outcomes of an attempt by `pull` on `key`.
\* The lock is granted when the key is free or already held by the same
\* pull request, refused with a reason when another pull request holds it;
\* the lock backend can also fail.
ProjectLockerTryLock(locks, key, pull) ==
    {[err |-> NewError(<<"lock backend failure">>), LockAcquired |-> FALSE,
      LockFailureReason |-> EmptyStr, LockKey |-> <<>>, locks |-> locks]}
    \cup
    (IF locks[key] = 0 \/ locks[key] = pull
     THEN {[err |-> NilErr, LockAcquired |-> TRUE, LockFailureReason |-> EmptyStr,
            LockKey |-> key, locks |-> [locks EXCEPT ![key] = pull]]}
     ELSE {[err |-> NilErr, LockAcquired |-> FALSE,
            LockFailureReason |-> LockedByAnotherPull, LockKey |-> <<>>,
            locks |-> locks]})

\* lockAttempt.UnlockFn: deletes the lock stored under the attempt's key.
ProjectLockerUnlock(locks, key) == [locks EXCEPT ![key] = 0]

\* WorkingDirLocker.TryLock: non-blocking, fails when the key is held.
WorkingDirLockerTryLock(locks, key) ==
    IF key \in locks
    THEN [err |-> NewError(<<"the workspace is currently locked by another command">>),
          locks |-> locks]
    ELSE [err |-> NilErr, locks |-> locks \cup {key}]

\* The release function WorkingDirLocker.TryLock returns.
WorkingDirLockerUnlock(locks, key) == locks \ {key}

\* WorkingDir.Clone: clone-or-reuse; a failed clone leaves the disk as it was.
WorkingDirClone(dirs, key) ==
    {[err |-> NilErr, dirs |-> dirs \cup {key}],
     [err |-> NewError(<<"clone failed">>), dirs |-> dirs]}

\* WorkingDir.GetWorkingDir: the path, a not-exist error when there is no
\* checkout, or another lookup error.
WorkingDirGetWorkingDir(dirs, key) ==
    {[notExist |-> FALSE, err |-> LookupError]}
    \cup
    (IF key \in dirs
     THEN {[notExist |-> FALSE, err |-> NilErr]}
     ELSE {[notExist |-> TRUE, err |-> NewError(<<"no such file or directory">>)]})

\* LockURLGenerator.GenerateLockURL(lockKey): a URL naming the lock.
GenerateLockURL(key) == <<"lock-url">> \o key

\* ------------------------------------------------------------------ helpers
InFlight == BagToSet(calls)

\* The bag of calls with call c replaced by its next state d.
Becomes(c, d) == (calls (-) SetToBag({c})) (+) SetToBag({d})

\* No returned ProjectResult is waiting to be taken by its caller.
NoneReturning == \A c \in InFlight : c.pc # "done"

\* A request can arrive.
CanStart(sc) ==
    /\ started < MaxStarts
    /\ BagCardinality(calls) < sc.inFlight
    /\ NoneReturning

\* Plan, lines 95-105
PlanResult(c, planSuccess, failure, err) ==
    [set |-> TRUE, PlanSuccess |-> planSuccess, ApplySuccess |-> EmptyStr,
     Failure |-> failure, Error |-> err,
     RepoRelDir |-> c.dir, Workspace |-> c.ws]

\* Apply, lines 108-118
ApplyResult(c, applyOut, failure, err) ==
    [set |-> TRUE, PlanSuccess |-> NilPlanSuccess, ApplySuccess |-> applyOut,
     Failure |-> failure, Error |-> err,
     RepoRelDir |-> c.dir, Workspace |-> c.ws]

\* Variant: the release is not deferred, the lock stays held after return.
noDeferUnlockFn(locks, key) == locks

\* `defer unlockFn()` (lines 136, 236): runs when the call returns.
deferUnlockFn(locks, key) == WorkingDirLockerUnlock(locks, key)

\* The stage doPlan runs (lines 148-157).
PlanStage(cfg) ==
    IF ~cfg.nil /\ ~cfg.stage.nil THEN cfg.stage ELSE defaultPlanStage

\* The stage doApply runs (lines 238-245).
ApplyStage(cfg) ==
    IF ~cfg.nil /\ ~cfg.stage.nil THEN cfg.stage ELSE defaultApplyStage

\* ----------------------------------------------------------------- runSteps
KnownSteps == {"init", "plan", "apply", "run"}

\* What the step runners would return for each step of `steps` if run.
RunnerOutcomes(steps, outs) ==
    [1..Len(steps) -> [out : outs, err : StepErrors]]

\* Variant: every output is recorded, empty or not.
AppendOutputAlways(outputs, out) == Append(outputs, out)

\* lines 190-192
AppendOutput(outputs, out) ==
    IF out # EmptyStr THEN Append(outputs, out) ELSE outputs

\* Variant: a step of unknown name is dispatched to a runner like any other.
RECURSIVE runStepsFromAnyName(_, _, _, _, _)
runStepsFromAnyName(steps, outcomes, i, outputs, ran) ==
    IF i > Len(steps)
    THEN [outputs |-> outputs, err |-> NilErr, ran |-> ran]
    ELSE LET outputs2 == AppendOutput(outputs, outcomes[i].out)
             ran2 == Append(ran, steps[i])
         IN IF ~outcomes[i].err.nil
            THEN [outputs |-> outputs2, err |-> outcomes[i].err, ran |-> ran2]
            ELSE runStepsFromAnyName(steps, outcomes, i + 1, outputs2, ran2)

\* Variant: the loop does not return at a failing step.
RECURSIVE runStepsFromNoStop(_, _, _, _, _)
runStepsFromNoStop(steps, outcomes, i, outputs, ran) ==
    IF i > Len(steps)
    THEN [outputs |-> outputs, err |-> NilErr, ran |-> ran]
    ELSE LET known == steps[i] \in KnownSteps
             out == IF known THEN outcomes[i].out ELSE EmptyStr
             ran2 == IF known THEN Append(ran, steps[i]) ELSE ran
         IN runStepsFromNoStop(steps, outcomes, i + 1, AppendOutput(outputs, out), ran2)

\* runSteps (lines 174-198) from step i on, with `outputs` collected and the
\* steps named in `ran` dispatched so far.
RECURSIVE runStepsFrom(_, _, _, _, _)
runStepsFrom(steps, outcomes, i, outputs, ran) ==
    IF i > Len(steps)
    THEN [outputs |-> outputs, err |-> NilErr, ran |-> ran]
    ELSE LET known == steps[i] \in KnownSteps
             out == IF known THEN outcomes[i].out ELSE EmptyStr
             err == IF known THEN outcomes[i].err ELSE NilErr
             ran2 == IF known THEN Append(ran, steps[i]) ELSE ran
             outputs2 == AppendOutput(outputs, out)
         IN IF ~err.nil
            THEN [outputs |-> outputs2, err |-> err, ran |-> ran2]
            ELSE runStepsFrom(steps, outcomes, i + 1, outputs2, ran2)

runSteps(steps, outcomes) == runStepsFrom(steps, outcomes, 1, <<>>, <<>>)

\* --------------------------------------------------------------------- Plan
\* The request context is immutable; its pull request, directory and
\* workspace are drawn when the request arrives, its project configuration
\* where the code first reads it.

\* Variant: LockAcquired is not checked, a refused plan goes on.
doPlan_TryLockUnchecked(sc) ==
    /\ CanStart(sc)
    /\ \E pull \in Pulls, dir \in sc.dirs, ws \in Workspaces :
         LET c == [NewCall EXCEPT !.op = "plan", !.pull = pull, !.dir = dir, !.ws = ws]
         IN \E lockAttempt \in ProjectLockerTryLock(projLocks, ProjectKey(c), pull) :
              /\ projLocks' = lockAttempt.locks
              /\ calls' = calls (+) SetToBag({
                   IF ~lockAttempt.err.nil
                   THEN [c EXCEPT !.pc = "done", !.exit = "lockErr",
                           !.result = PlanResult(c, NilPlanSuccess, EmptyStr,
                                                 Wrap(lockAttempt.err, "acquiring lock"))]
                   ELSE [c EXCEPT !.pc = "WorkingDirTryLock",
                                  !.LockAcquired = lockAttempt.LockAcquired,
                                  !.LockKey = lockAttempt.LockKey,
                                  !.regranted = (lockAttempt.LockAcquired
                                                 /\ projLocks[ProjectKey(c)] = pull)]})
    /\ started' = started + 1
    /\ UNCHANGED <<wdLocks, cloned, RequireApprovalOverride>>

\* doPlan lines 120-129: the request arrives and asks for the project lock.
doPlan_TryLock(sc) ==
    /\ CanStart(sc)
    /\ \E pull \in Pulls, dir \in sc.dirs, ws \in Workspaces :
         LET c == [NewCall EXCEPT !.op = "plan", !.pull = pull, !.dir = dir, !.ws = ws]
         IN \E lockAttempt \in ProjectLockerTryLock(projLocks, ProjectKey(c), pull) :
              /\ projLocks' = lockAttempt.locks
              /\ calls' = calls (+) SetToBag({
                   IF ~lockAttempt.err.nil
                   THEN [c EXCEPT !.pc = "done", !.exit = "lockErr",
                           !.result = PlanResult(c, NilPlanSuccess, EmptyStr,
                                                 Wrap(lockAttempt.err, "acquiring lock"))]
                   ELSE IF ~lockAttempt.LockAcquired
                   THEN [c EXCEPT !.pc = "done", !.exit = "notAcquired",
                           !.result = PlanResult(c, NilPlanSuccess,
                                                 lockAttempt.LockFailureReason, NilErr)]
                   ELSE [c EXCEPT !.pc = "WorkingDirTryLock", !.LockAcquired = TRUE,
                                  !.LockKey = lockAttempt.LockKey,
                                  !.regranted = (projLocks[ProjectKey(c)] = pull)]})
    /\ started' = started + 1
    /\ UNCHANGED <<wdLocks, cloned, RequireApprovalOverride>>

\* Variant: the error of WorkingDirLocker.TryLock is ignored and the plan
\* goes on to clone.
doPlan_WorkingDirTryLockUnchecked ==
    \E c \in InFlight :
    LET r == WorkingDirLockerTryLock(wdLocks, WorkingDirKey(c))
    IN /\ NoneReturning
       /\ c.op = "plan"
       /\ c.pc = "WorkingDirTryLock"
       /\ wdLocks' = r.locks
       /\ calls' = Becomes(c,
            [c EXCEPT !.pc = "Clone", !.wdTryLocks = @ + 1, !.wdHeld = TRUE])
       /\ UNCHANGED <<projLocks, cloned, RequireApprovalOverride, started>>

\* doPlan lines 131-136
doPlan_WorkingDirTryLock ==
    \E c \in InFlight :
    LET r == WorkingDirLockerTryLock(wdLocks, WorkingDirKey(c))
    IN /\ NoneReturning
       /\ c.op = "plan"
       /\ c.pc = "WorkingDirTryLock"
       /\ wdLocks' = r.locks
       /\ calls' = Becomes(c,
            IF ~r.err.nil
            THEN [c EXCEPT !.pc = "done", !.exit = "wdLockErr",
                    !.wdTryLocks = @ + 1,
                    !.result = PlanResult(c, NilPlanSuccess, EmptyStr, r.err)]
            ELSE [c EXCEPT !.pc = "Clone", !.wdTryLocks = @ + 1, !.wdHeld = TRUE])
       /\ UNCHANGED <<projLocks, cloned, RequireApprovalOverride, started>>

\* doPlan lines 138-140
doPlan_Clone ==
    \E c \in InFlight :
    /\ NoneReturning
    /\ c.op = "plan"
    /\ c.pc = "Clone"
    /\ \E r \in WorkingDirClone(cloned, WorkingDirKey(c)) :
         /\ cloned' = r.dirs
         /\ calls' = Becomes(c,
              IF ~r.err.nil
              THEN [c EXCEPT !.pc = "cloneErr", !.clones = @ + 1, !.err = r.err]
              ELSE [c EXCEPT !.pc = "runSteps", !.clones = @ + 1])
    /\ UNCHANGED <<projLocks, wdLocks, RequireApprovalOverride, started>>

\* Variant: the clone failure is returned without releasing the project lock.
doPlan_CloneErrNoUnlockFn ==
    \E c \in InFlight :
    /\ NoneReturning
    /\ c.op = "plan"
    /\ c.pc = "cloneErr"
    /\ calls' = Becomes(c, [c EXCEPT !.pc = "return", !.exit = "cloneErr"])
    /\ UNCHANGED <<projLocks, wdLocks, cloned, RequireApprovalOverride, started>>

\* Variant: the clone failure releases the project lock and the plan goes
\* on to its steps instead of returning.
doPlan_CloneErrUnlockFnNoReturn ==
    \E c \in InFlight :
    /\ NoneReturning
    /\ c.op = "plan"
    /\ c.pc = "cloneErr"
    /\ projLocks' = ProjectLockerUnlock(projLocks, ProjectKey(c))
    /\ calls' = Becomes(c, [c EXCEPT !.pc = "runSteps", !.unlockFnCalls = @ + 1])
    /\ UNCHANGED <<wdLocks, cloned, RequireApprovalOverride, started>>

\* doPlan lines 141-143: release the project lock after a clone failure.
doPlan_CloneErrUnlockFn ==
    \E c \in InFlight :
    /\ NoneReturning
    /\ c.op = "plan"
    /\ c.pc = "cloneErr"
    /\ projLocks' = ProjectLockerUnlock(projLocks, ProjectKey(c))
    /\ calls' = Becomes(c,
         [c EXCEPT !.pc = "return", !.exit = "cloneErr", !.unlockFnCalls = @ + 1])
    /\ UNCHANGED <<wdLocks, cloned, RequireApprovalOverride, started>>

\* doPlan lines 146-158 and 166-171: the steps succeed and the plan is
\* returned; the deferred unlockFn runs.
doPlan_RunStepsSuccess(sc) ==
    \E c \in InFlight :
    /\ NoneReturning
    /\ c.op = "plan"
    /\ c.pc = "runSteps"
    /\ \E cfg \in sc.configs :
       \E outcomes \in RunnerOutcomes(PlanStage(cfg).Steps, sc.outputs) :
         LET r == runSteps(PlanStage(cfg).Steps, outcomes)
         IN /\ r.err.nil
            /\ calls' = Becomes(c,
                 [c EXCEPT !.pc = "done", !.exit = "success", !.wdHeld = FALSE,
                           !.wdUnlocks = @ + 1,
                           !.steps = PlanStage(cfg).Steps, !.outcomes = outcomes,
                           !.outputs = r.outputs, !.ran = r.ran,
                           !.result = PlanResult(c,
                               [nil |-> FALSE, TerraformOutput |-> Join(r.outputs),
                                LockURL |-> GenerateLockURL(c.LockKey)],
                               EmptyStr, NilErr)])
    /\ wdLocks' = deferUnlockFn(wdLocks, WorkingDirKey(c))
    /\ UNCHANGED <<projLocks, cloned, RequireApprovalOverride, started>>

\* Variant: a step failure is returned without releasing the project lock.
doPlan_RunStepsErrNoUnlockFn(sc) ==
    \E c \in InFlight :
    /\ NoneReturning
    /\ c.op = "plan"
    /\ c.pc = "runSteps"
    /\ \E cfg \in sc.configs :
       \E outcomes \in RunnerOutcomes(PlanStage(cfg).Steps, sc.outputs) :
         LET r == runSteps(PlanStage(cfg).Steps, outcomes)
         IN /\ ~r.err.nil
            /\ calls' = Becomes(c,
                 [c EXCEPT !.pc = "return", !.exit = "stepErr",
                           !.steps = PlanStage(cfg).Steps, !.outcomes = outcomes,
                           !.outputs = r.outputs, !.ran = r.ran,
                           !.err = StepsErrorf(r.err, r.outputs)])
    /\ UNCHANGED <<projLocks, wdLocks, cloned, RequireApprovalOverride, started>>

\* doPlan lines 146-162: a step fails and the project lock is released.
doPlan_RunStepsErrUnlockFn(sc) ==
    \E c \in InFlight :
    /\ NoneReturning
    /\ c.op = "plan"
    /\ c.pc = "runSteps"
    /\ \E cfg \in sc.configs :
       \E outcomes \in RunnerOutcomes(PlanStage(cfg).Steps, sc.outputs) :
         LET r == runSteps(PlanStage(cfg).Steps, outcomes)
         IN /\ ~r.err.nil
            /\ calls' = Becomes(c,
                 [c EXCEPT !.pc = "return", !.exit = "stepErr",
                           !.unlockFnCalls = @ + 1,
                           !.steps = PlanStage(cfg).Steps, !.outcomes = outcomes,
                           !.outputs = r.outputs, !.ran = r.ran,
                           !.err = StepsErrorf(r.err, r.outputs)])
    /\ projLocks' = ProjectLockerUnlock(projLocks, ProjectKey(c))
    /\ UNCHANGED <<wdLocks, cloned, RequireApprovalOverride, started>>

\* doPlan lines 144, 163: return the error; the deferred unlockFn runs.
doPlan_ReturnErr ==
    \E c \in InFlight :
    /\ NoneReturning
    /\ c.op = "plan"
    /\ c.pc = "return"
    /\ wdLocks' = deferUnlockFn(wdLocks, WorkingDirKey(c))
    /\ calls' = Becomes(c,
         [c EXCEPT !.pc = "done", !.wdHeld = FALSE, !.wdUnlocks = @ + 1,
                   !.result = PlanResult(c, NilPlanSuccess, EmptyStr, c.err)])
    /\ UNCHANGED <<projLocks, cloned, RequireApprovalOverride, started>>

\* -------------------------------------------------------------------- Apply
\* doApply lines 210-218: the effective apply requirements.
\* Variant: the override adds "approved" to the configured requirements.
ApplyRequirementsMerged(cfg, override) ==
    (IF ~cfg.nil THEN cfg.ApplyRequirements ELSE <<>>)
    \o (IF override THEN <<ApprovedApplyRequirement>> ELSE <<>>)

\* doApply lines 210-218
ApplyRequirements(cfg, override) ==
    IF override THEN <<ApprovedApplyRequirement>>
    ELSE IF ~cfg.nil THEN cfg.ApplyRequirements
    ELSE <<>>

NotClonedError == NewError(<<"project has not been cloned-did you run plan?">>)

\* Variant: a not-exist error is returned like any other lookup error.
doApply_GetWorkingDirAnyError(sc) ==
    /\ CanStart(sc)
    /\ \E pull \in Pulls, dir \in sc.dirs, ws \in Workspaces, cfg \in sc.configs :
         LET c == [NewCall EXCEPT !.op = "apply", !.pull = pull, !.dir = dir,
                                  !.ws = ws, !.lookups = 1]
         IN \E r \in WorkingDirGetWorkingDir(cloned, WorkingDirKey(c)) :
              calls' = calls (+) SetToBag({
                   IF ~r.err.nil
                   THEN [c EXCEPT !.pc = "done", !.exit = "lookupErr",
                           !.result = ApplyResult(c, EmptyStr, EmptyStr, r.err)]
                   ELSE [c EXCEPT !.pc = "requirements",
                           !.config = [nil |-> cfg.nil,
                                       ApplyRequirements |-> cfg.ApplyRequirements],
                           !.reqs = ApplyRequirements(cfg, RequireApprovalOverride)]})
    /\ started' = started + 1
    /\ UNCHANGED <<projLocks, wdLocks, cloned, RequireApprovalOverride>>

\* doApply lines 200-218: the request arrives and looks up the working dir.
doApply_GetWorkingDir(sc) ==
    /\ CanStart(sc)
    /\ \E pull \in Pulls, dir \in sc.dirs, ws \in Workspaces, cfg \in sc.configs :
         LET c == [NewCall EXCEPT !.op = "apply", !.pull = pull, !.dir = dir,
                                  !.ws = ws, !.lookups = 1]
         IN \E r \in WorkingDirGetWorkingDir(cloned, WorkingDirKey(c)) :
              calls' = calls (+) SetToBag({
                   IF ~r.err.nil
                   THEN IF r.notExist
                        THEN [c EXCEPT !.pc = "done", !.exit = "notCloned",
                                !.result = ApplyResult(c, EmptyStr, EmptyStr, NotClonedError)]
                        ELSE [c EXCEPT !.pc = "done", !.exit = "lookupErr",
                                !.result = ApplyResult(c, EmptyStr, EmptyStr, r.err)]
                   ELSE [c EXCEPT !.pc = "requirements",
                           !.config = [nil |-> cfg.nil,
                                       ApplyRequirements |-> cfg.ApplyRequirements],
                           !.reqs = ApplyRequirements(cfg, RequireApprovalOverride)]})
    /\ started' = started + 1
    /\ UNCHANGED <<projLocks, wdLocks, cloned, RequireApprovalOverride>>

\* doApply line 226
NotApprovedReason == <<"Pull request must be approved before running apply.">>

\* Variant: an unapproved pull request does not stop the apply.
doApply_RequirementUngated(sc) ==
    \E c \in InFlight :
    /\ NoneReturning
    /\ c.op = "apply"
    /\ c.pc = "requirements"
    /\ c.reqs # <<>>
    /\ IF Head(c.reqs) = ApprovedApplyRequirement
       THEN \E request \in sc.requests :
              LET r == PullIsApproved(request)
                  d == [c EXCEPT !.approvalChecks = @ + 1,
                                 !.checked = Append(@, [request |-> request,
                                                        approved |-> r.approved,
                                                        err |-> r.err])]
              IN calls' = Becomes(c,
                   IF ~r.err.nil
                   THEN [d EXCEPT !.pc = "done", !.exit = "approvalErr",
                           !.result = ApplyResult(c, EmptyStr, EmptyStr,
                               Wrap(r.err, "checking if pull request was approved"))]
                   ELSE [d EXCEPT !.reqs = Tail(c.reqs)])
       ELSE calls' = Becomes(c, [c EXCEPT !.reqs = Tail(c.reqs)])
    /\ UNCHANGED <<projLocks, wdLocks, cloned, RequireApprovalOverride, started>>

\* Variant: an error of the approval check is reported as an unmet
\* requirement.
doApply_RequirementErrAsUnmet(sc) ==
    \E c \in InFlight :
    /\ NoneReturning
    /\ c.op = "apply"
    /\ c.pc = "requirements"
    /\ c.reqs # <<>>
    /\ IF Head(c.reqs) = ApprovedApplyRequirement
       THEN \E request \in sc.requests :
              LET r == PullIsApproved(request)
                  d == [c EXCEPT !.approvalChecks = @ + 1,
                                 !.checked = Append(@, [request |-> request,
                                                        approved |-> r.approved,
                                                        err |-> r.err])]
              IN calls' = Becomes(c,
                   IF ~r.err.nil
                   THEN [d EXCEPT !.pc = "done", !.exit = "approvalErr",
                           !.result = ApplyResult(c, EmptyStr, NotApprovedReason, NilErr)]
                   ELSE IF ~r.approved
                   THEN [d EXCEPT !.pc = "done", !.exit = "notApproved",
                           !.result = ApplyResult(c, EmptyStr,
                               NotApprovedReason,
                               NilErr)]
                   ELSE [d EXCEPT !.reqs = Tail(c.reqs)])
       ELSE calls' = Becomes(c, [c EXCEPT !.reqs = Tail(c.reqs)])
    /\ UNCHANGED <<projLocks, wdLocks, cloned, RequireApprovalOverride, started>>

\* doApply lines 219-230: one iteration of the loop over the requirements.
doApply_Requirement(sc) ==
    \E c \in InFlight :
    /\ NoneReturning
    /\ c.op = "apply"
    /\ c.pc = "requirements"
    /\ c.reqs # <<>>
    /\ IF Head(c.reqs) = ApprovedApplyRequirement
       THEN \E request \in sc.requests :
              LET r == PullIsApproved(request)
                  d == [c EXCEPT !.approvalChecks = @ + 1,
                                 !.checked = Append(@, [request |-> request,
                                                        approved |-> r.approved,
                                                        err |-> r.err])]
              IN calls' = Becomes(c,
                   IF ~r.err.nil
                   THEN [d EXCEPT !.pc = "done", !.exit = "approvalErr",
                           !.result = ApplyResult(c, EmptyStr, EmptyStr,
                               Wrap(r.err, "checking if pull request was approved"))]
                   ELSE IF ~r.approved
                   THEN [d EXCEPT !.pc = "done", !.exit = "notApproved",
                           !.result = ApplyResult(c, EmptyStr,
                               NotApprovedReason,
                               NilErr)]
                   ELSE [d EXCEPT !.reqs = Tail(c.reqs)])
       ELSE calls' = Becomes(c, [c EXCEPT !.reqs = Tail(c.reqs)])
    /\ UNCHANGED <<projLocks, wdLocks, cloned, RequireApprovalOverride, started>>

\* Variant: the error of WorkingDirLocker.TryLock is ignored and the apply
\* goes on without the lock.
doApply_WorkingDirTryLockUnchecked ==
    \E c \in InFlight :
    LET r == WorkingDirLockerTryLock(wdLocks, WorkingDirKey(c))
    IN /\ NoneReturning
       /\ c.op = "apply"
       /\ c.pc = "requirements"
       /\ c.reqs = <<>>
       /\ wdLocks' = r.locks
       /\ calls' = Becomes(c,
            [c EXCEPT !.pc = "runSteps", !.wdTryLocks = @ + 1, !.wdHeld = r.err.nil])
       /\ UNCHANGED <<projLocks, cloned, RequireApprovalOverride, started>>

\* doApply lines 231-236
doApply_WorkingDirTryLock ==
    \E c \in InFlight :
    LET r == WorkingDirLockerTryLock(wdLocks, WorkingDirKey(c))
    IN /\ NoneReturning
       /\ c.op = "apply"
       /\ c.pc = "requirements"
       /\ c.reqs = <<>>
       /\ wdLocks' = r.locks
       /\ calls' = Becomes(c,
            IF ~r.err.nil
            THEN [c EXCEPT !.pc = "done", !.exit = "wdLockErr",
                    !.wdTryLocks = @ + 1,
                    !.result = ApplyResult(c, EmptyStr, EmptyStr, r.err)]
            ELSE [c EXCEPT !.pc = "runSteps", !.wdTryLocks = @ + 1, !.wdHeld = TRUE])
       /\ UNCHANGED <<projLocks, cloned, RequireApprovalOverride, started>>

\* Variant: the webhook is sent only for a successful apply.
WebhooksSendOnSuccess(hooks, success, sendErr) ==
    IF success THEN Append(hooks, [Success |-> success, sendErr |-> sendErr])
    ELSE hooks

\* doApply lines 247-253: p.Webhooks.Send with Success: err == nil; sendErr
\* tells whether Send returns an error.
WebhooksSend(hooks, success, sendErr) ==
    Append(hooks, [Success |-> success, sendErr |-> sendErr])

\* Variant: the error of Webhooks.Send is returned to the caller.
doApplyReturnSendErr(c, r, sendErr) ==
    IF sendErr
    THEN ApplyResult(c, EmptyStr, EmptyStr, NewError(<<"sending webhook">>))
    ELSE IF ~r.err.nil
    THEN ApplyResult(c, EmptyStr, EmptyStr, StepsErrorf(r.err, r.outputs))
    ELSE ApplyResult(c, Join(r.outputs), EmptyStr, NilErr)

\* doApply lines 254-257: what doApply returns after runSteps returned r and
\* the webhook was sent; the value Send returned is not looked at.
doApplyReturn(c, r, sendErr) ==
    IF ~r.err.nil
    THEN ApplyResult(c, EmptyStr, EmptyStr, StepsErrorf(r.err, r.outputs))
    ELSE ApplyResult(c, Join(r.outputs), EmptyStr, NilErr)

\* Variant: a failed apply releases the project lock, as a failed plan does.
doApply_RunStepsErrUnlockFn(sc) ==
    \E c \in InFlight :
    /\ NoneReturning
    /\ c.op = "apply"
    /\ c.pc = "runSteps"
    /\ \E cfg \in sc.configs, sendErr \in BOOLEAN :
       \E outcomes \in RunnerOutcomes(ApplyStage(cfg).Steps, sc.outputs) :
         LET r == runSteps(ApplyStage(cfg).Steps, outcomes)
         IN calls' = Becomes(c,
             [c EXCEPT !.pc = "done", !.wdHeld = FALSE, !.wdUnlocks = @ + 1,
                       !.steps = ApplyStage(cfg).Steps, !.outcomes = outcomes,
                       !.outputs = r.outputs, !.ran = r.ran,
                       !.hooks = WebhooksSend(@, r.err.nil, sendErr),
                       !.exit = IF r.err.nil THEN "success" ELSE "stepErr",
                       !.result = doApplyReturn(c, r, sendErr)])
    /\ wdLocks' = deferUnlockFn(wdLocks, WorkingDirKey(c))
    /\ projLocks' = ProjectLockerUnlock(projLocks, ProjectKey(c))
    /\ UNCHANGED <<cloned, RequireApprovalOverride, started>>

\* doApply lines 238-258: run the steps, send the webhook (its own error is
\* dropped) and return; the deferred unlockFn runs.
doApply_RunSteps(sc) ==
    \E c \in InFlight :
    /\ NoneReturning
    /\ c.op = "apply"
    /\ c.pc = "runSteps"
    /\ \E cfg \in sc.configs, sendErr \in BOOLEAN :
       \E outcomes \in RunnerOutcomes(ApplyStage(cfg).Steps, sc.outputs) :
         LET r == runSteps(ApplyStage(cfg).Steps, outcomes)
         IN calls' = Becomes(c,
             [c EXCEPT !.pc = "done", !.wdHeld = FALSE, !.wdUnlocks = @ + 1,
                       !.steps = ApplyStage(cfg).Steps, !.outcomes = outcomes,
                       !.outputs = r.outputs, !.ran = r.ran,
                       !.hooks = WebhooksSend(@, r.err.nil, sendErr),
                       !.exit = IF r.err.nil THEN "success" ELSE "stepErr",
                       !.result = doApplyReturn(c, r, sendErr)])
    /\ wdLocks' = deferUnlockFn(wdLocks, WorkingDirKey(c))
    /\ UNCHANGED <<projLocks, cloned, RequireApprovalOverride, started>>

\* Plan line 97, Apply line 110: the caller takes the ProjectResult and the
\* call is over.
ReturnProjectResult ==
    \E c \in InFlight :
    /\ c.pc = "done"
    /\ calls' = calls (-) SetToBag({c})
    /\ UNCHANGED <<projLocks, wdLocks, cloned, RequireApprovalOverride, started>>

\* ------------------------------------------------------------ specification
Step(sc) ==
    \/ doPlan_TryLock(sc)
    \/ doPlan_WorkingDirTryLock
    \/ doPlan_Clone
    \/ doPlan_CloneErrUnlockFn
    \/ doPlan_RunStepsSuccess(sc)
    \/ doPlan_RunStepsErrUnlockFn(sc)
    \/ doPlan_ReturnErr
    \/ doApply_GetWorkingDir(sc)
    \/ doApply_Requirement(sc)
    \/ doApply_WorkingDirTryLock
    \/ doApply_RunSteps(sc)
    \/ ReturnProjectResult

\* Concurrent requests.
Next == Step(Concurrent)

Spec == Init /\ [][Next]_vars

\* One request at a time.
NextSeq == Step(Sequential)

SpecSeq == Init /\ [][NextSeq]_vars


\* ----------------------------------------------------------------- properties
\* c and d are two different calls in flight.
TwoCalls(c, d) == c # d \/ CopiesIn(c, calls) > 1

\* The call acquired the working-directory lock at some point.
WdAcquired(c) == c.wdTryLocks = 1 /\ c.exit # "wdLockErr"

\* The call is between its successful WorkingDirLocker.TryLock and its return.
InWorkingDir(c) == c.pc \in {"Clone", "cloneErr", "runSteps", "return"}

\* A Plan call has just released the project lock on a failure path: a call
\* in state "return" appears in this step.
ReleasedInStep(d) ==
    /\ d.op = "plan"
    /\ d.pc = "return"
    /\ CopiesIn(d, calls') > CopiesIn(d, calls)

\* C1: a Plan call that acquired the project lock and fails at Clone or at a
\* pipeline step has invoked UnlockFn exactly once before it returns, and
\* when it does so the lock is released: a Plan of any other pull request
\* for the same (repository, directory, workspace) would acquire it.
C1_PlanFailureReleasesProjectLock ==
    /\ [](\A c \in InFlight :
            (c.op = "plan" /\ c.pc = "done" /\ c.exit \in {"cloneErr", "stepErr"})
                => (c.LockAcquired /\ c.unlockFnCalls = 1 /\ ~c.result.Error.nil))
    /\ [][\A d \in BagToSet(calls') :
            ReleasedInStep(d) =>
                /\ d.unlockFnCalls = 1
                /\ \A p \in Pulls \ {d.pull} :
                     \E a \in ProjectLockerTryLock(projLocks', ProjectKey(d), p) :
                        a.LockAcquired]_vars

\* A failed Plan has returned and its project key is free.
C1_Witness ==
    \E c \in InFlight :
        /\ c.op = "plan" /\ c.pc = "done" /\ c.exit \in {"cloneErr", "stepErr"}
        /\ c.unlockFnCalls = 1
        /\ projLocks[ProjectKey(c)] = 0


\* C2: a Plan call that acquired the project lock and returns an error has
\* explicitly released the lock first, on every such exit path (the refused
\* WorkingDirLocker.TryLock included), and does not leave it held.
C2_ErrorExitReleasedProjectLock ==
    \A c \in InFlight :
        (c.op = "plan" /\ c.pc = "done" /\ c.LockAcquired /\ ~c.result.Error.nil)
            => c.unlockFnCalls = 1

\* C3: of the concurrent Plan calls for the same (repository, directory,
\* workspace) that come from different pull requests, at most one has been
\* granted the project lock and is cloning or running steps, and a refused
\* one returns the non-empty reason with no error and no plan.
C3_OneHolderAmongPulls ==
    /\ \A c, d \in InFlight :
         (/\ c.op = "plan" /\ d.op = "plan"
          /\ ProjectKey(c) = ProjectKey(d) /\ c.pull # d.pull)
            => ~(/\ c.LockAcquired /\ c.pc \in {"Clone", "runSteps"}
                 /\ d.LockAcquired /\ d.pc \in {"Clone", "runSteps"})
    /\ \A c \in InFlight :
         (c.op = "plan" /\ c.pc = "done" /\ c.exit = "notAcquired")
            => (/\ c.result.Failure # EmptyStr
                /\ c.result.Error.nil
                /\ c.result.PlanSuccess.nil)

\* C4: among the Plan and Apply calls of one (repository, pull, workspace),
\* whatever their directory, at most one at a time is between its successful
\* WorkingDirLocker.TryLock and its release, so no two of them clone or run
\* steps at the same time; a call whose TryLock is refused clones nothing
\* and runs no step.
C4_WorkingDirMutualExclusion ==
    /\ \A c, d \in InFlight :
         (TwoCalls(c, d) /\ WorkingDirKey(c) = WorkingDirKey(d))
            => ~((c.wdHeld \/ InWorkingDir(c)) /\ (d.wdHeld \/ InWorkingDir(d)))
    /\ \A c \in InFlight :
         /\ InWorkingDir(c) => (c.wdHeld /\ WorkingDirKey(c) \in wdLocks)
         /\ (c.wdTryLocks = 1 /\ ~WdAcquired(c))
                => (c.pc = "done" /\ c.clones = 0 /\ c.ran = <<>> /\ ~c.wdHeld)

\* A Plan and an Apply of the same pull request for different directories:
\* one is running steps under the lock, the other was refused.
C4_Witness ==
    \E c, d \in InFlight :
        /\ c.pull = d.pull /\ c.ws = d.ws /\ c.dir # d.dir /\ c.op # d.op
        /\ c.pc = "runSteps" /\ c.wdHeld
        /\ d.pc = "done" /\ d.exit = "wdLockErr"

\* C5: a call that acquired the working-directory lock has released it
\* exactly once when it has returned, and not before, on every path; the
\* keys held are exactly those of the calls in flight that hold them, so
\* once all calls have returned no key is held.
C5_WorkingDirLockReleasedOnce ==
    /\ \A c \in InFlight :
         /\ (c.pc = "done" /\ WdAcquired(c)) => (c.wdUnlocks = 1 /\ ~c.wdHeld)
         /\ (c.pc = "done" /\ ~WdAcquired(c)) => c.wdUnlocks = 0
         /\ c.pc # "done" => (c.wdUnlocks = 0 /\ (WdAcquired(c) <=> c.wdHeld))
    /\ wdLocks = {WorkingDirKey(c) : c \in {d \in InFlight : d.wdHeld}}
    /\ (calls = EmptyBag => wdLocks = {})

\* A Plan whose clone failed has returned, releasing the lock it held, and
\* no working-directory key is held.
C5_Witness ==
    \E c \in InFlight :
        /\ c.pc = "done" /\ c.exit = "cloneErr"
        /\ c.wdTryLocks = 1 /\ c.wdUnlocks = 1
        /\ wdLocks = {}


\* C6: a call that is cloning or running steps, in Plan or in Apply, holds
\* the project lock of its (repository, directory, workspace) at that moment.
C6_WorkOnlyUnderProjectLock ==
    \A c \in InFlight :
        c.pc \in {"Clone", "runSteps"} => projLocks[ProjectKey(c)] = c.pull

\* C7: a Plan whose project lock attempt is refused returns at once the
\* attempt's reason with no error and no plan: it has called neither
\* WorkingDirLocker.TryLock nor Clone, has run no step and has not invoked
\* the release function; no Plan call goes on without the lock acquired.
C7_RefusedPlanDoesNothing ==
    \A c \in InFlight :
        (c.op = "plan" /\ ~c.LockAcquired) =>
            /\ c.pc = "done"
            /\ c.exit \in {"notAcquired", "lockErr"}
            /\ c.wdTryLocks = 0 /\ c.clones = 0 /\ c.ran = <<>>
            /\ c.unlockFnCalls = 0 /\ ~c.wdHeld
            /\ c.result.PlanSuccess.nil
            /\ c.exit = "notAcquired" =>
                 /\ projLocks[ProjectKey(c)] \notin {0, c.pull}
                 /\ c.result.Failure = LockedByAnotherPull
                 /\ c.result.Failure # EmptyStr
                 /\ c.result.Error.nil

\* A Plan has been refused the lock another pull request holds.
C7_Witness ==
    \E c \in InFlight :
        /\ c.op = "plan" /\ c.pc = "done" /\ c.exit = "notAcquired"
        /\ projLocks[ProjectKey(c)] \notin {0, c.pull}

\* The number of populated fields among PlanSuccess, ApplySuccess, Failure
\* and Error of a ProjectResult.
Populated(r) ==
    (IF ~r.PlanSuccess.nil THEN 1 ELSE 0) + (IF r.ApplySuccess # EmptyStr THEN 1 ELSE 0)
    + (IF r.Failure # EmptyStr THEN 1 ELSE 0) + (IF ~r.Error.nil THEN 1 ELSE 0)

\* C8: every ProjectResult returned by Plan or Apply has exactly one of
\* PlanSuccess, ApplySuccess, Failure and Error populated.
C8_ExactlyOnePopulated ==
    \A c \in InFlight : c.pc = "done" => Populated(c.result) = 1

\* C9 as stated: whenever a call has looked up or cloned the working copy,
\* or runs or has run a step, it has acquired the working-directory lock
\* before.
C9_LockBeforeEveryWorkingCopyOperation ==
    \A c \in InFlight :
        (c.lookups > 0 \/ c.clones > 0 \/ c.ran # <<>> \/ c.pc \in {"Clone", "runSteps"})
            => WdAcquired(c)

\* C9 amended: whenever a call clones, has cloned, runs or has run a step,
\* it has acquired the working-directory lock before, and it holds the lock
\* while it clones and runs steps; Apply makes its GetWorkingDir lookup
\* before it asks for the lock.
C9_LockBeforeCloneAndSteps ==
    \A c \in InFlight :
        /\ (c.clones > 0 \/ c.ran # <<>> \/ c.pc \in {"Clone", "cloneErr", "runSteps"})
              => WdAcquired(c)
        /\ c.pc \in {"Clone", "cloneErr", "runSteps"}
              => (c.wdHeld /\ WorkingDirKey(c) \in wdLocks)
        /\ c.op = "apply" => c.lookups = 1
        /\ (c.op = "apply" /\ c.pc = "requirements") => c.wdTryLocks = 0

\* An Apply is about to run its steps, holding the working-directory lock
\* it acquired after its lookup.
C9_Witness ==
    \E c \in InFlight :
        /\ c.op = "apply" /\ c.pc = "runSteps"
        /\ c.lookups = 1 /\ c.wdTryLocks = 1 /\ c.wdHeld

\* No effect of an Apply beyond its lookup.
NoApplySideEffects(c) ==
    /\ c.approvalChecks = 0
    /\ c.wdTryLocks = 0 /\ ~c.wdHeld
    /\ c.ran = <<>>
    /\ c.hooks = <<>>
    /\ c.result.Failure = EmptyStr
    /\ c.result.ApplySuccess = EmptyStr

\* C10: an Apply for a (repository, pull, workspace) that has no working
\* directory returns the error "project has not been cloned-did you run
\* plan?", or the lookup's own error unchanged when the lookup fails
\* otherwise, with empty Failure and ApplySuccess, and has evaluated no
\* requirement, asked for no working-directory lock, run no step and sent
\* no webhook.
C10_ApplyWithoutClone ==
    \A c \in InFlight :
        c.op = "apply" =>
            /\ WorkingDirKey(c) \notin cloned =>
                 /\ c.pc = "done"
                 /\ c.result.Error \in {NotClonedError, LookupError}
            /\ c.exit = "notCloned" =>
                 /\ WorkingDirKey(c) \notin cloned
                 /\ c.result.Error = NotClonedError
                 /\ NoApplySideEffects(c)
            /\ c.exit = "lookupErr" =>
                 /\ c.result.Error = LookupError
                 /\ NoApplySideEffects(c)

\* An Apply without a prior Plan has returned the not-cloned error.
C10_Witness ==
    \E c \in InFlight :
        /\ c.op = "apply" /\ c.pc = "done" /\ c.exit = "notCloned"
        /\ WorkingDirKey(c) \notin cloned
        /\ c.result.Error = NotClonedError

\* True of an Apply call that returned before the working-directory lock:
\* it asked for no lock, ran no step and sent no webhook.
GatedOut(c) ==
    /\ c.pc = "done"
    /\ c.wdTryLocks = 0 /\ ~c.wdHeld /\ c.wdUnlocks = 0
    /\ c.ran = <<>>
    /\ c.hooks = <<>>
    /\ c.result.ApplySuccess = EmptyStr

\* C11: an Apply whose "approved" requirement is evaluated on a pull request
\* the approval check reports as not approved returns the failure reason
\* "Pull request must be approved before running apply." with no error, has
\* run no step, never called WorkingDirLocker.TryLock and sent no webhook.
C11_UnapprovedApplyIsGatedOut ==
    \A c \in InFlight :
        (\E i \in 1..Len(c.checked) : c.checked[i].err.nil /\ ~c.checked[i].approved)
            => /\ c.op = "apply" /\ c.exit = "notApproved"
               /\ c.result.Failure = NotApprovedReason
               /\ c.result.Error.nil
               /\ GatedOut(c)

\* An Apply was gated out by an approval check answering "not approved".
C11_Witness ==
    \E c \in InFlight :
        /\ c.op = "apply" /\ c.exit = "notApproved"
        /\ c.approvalChecks = 1 /\ ~c.checked[1].approved
        /\ c.result.Failure = NotApprovedReason

\* Text `a` occurs in `msg`.
Contains(msg, a) ==
    \E i \in 1..(Len(msg) - Len(a) + 1) : SubSeq(msg, i, i + Len(a) - 1) = a

\* Texts `a` and `b` occur in `msg`, an occurrence of `a` ending before one
\* of `b` begins.
TextPrecedes(msg, a, b) ==
    \E i \in 1..(Len(msg) - Len(a) + 1), j \in 1..(Len(msg) - Len(b) + 1) :
        /\ SubSeq(msg, i, i + Len(a) - 1) = a
        /\ SubSeq(msg, j, j + Len(b) - 1) = b
        /\ i + Len(a) <= j

\* The calls that returned because a step failed after printing something.
StepFailures ==
    {c \in InFlight : c.pc = "done" /\ c.exit = "stepErr" /\ c.outputs # <<>>}

\* C12 as stated: when a step fails after output was collected, the returned
\* error message holds the output and the step's error text, the output
\* before the error.
C12_OutputPrecedesError ==
    \A c \in StepFailures :
        \E e \in StepErrors :
            /\ ~e.nil
            /\ TextPrecedes(c.result.Error.msg, Join(c.outputs), e.msg)

\* C12: when a step fails, Plan and Apply return an error whose message
\* holds the step's error text and, when there is any, the output collected
\* from the pipeline, the error text before the output.
C12_ErrorPrecedesOutput ==
    \A c \in InFlight :
        (c.pc = "done" /\ c.exit = "stepErr") =>
            \E e \in StepErrors :
                /\ ~e.nil
                /\ ~c.result.Error.nil
                /\ Contains(c.result.Error.msg, e.msg)
                /\ c.outputs # <<>> =>
                      /\ TextPrecedes(c.result.Error.msg, e.msg, Join(c.outputs))
                      /\ ~TextPrecedes(c.result.Error.msg, Join(c.outputs), e.msg)

\* A Plan over [init, plan, ...] returned after init printed "A" and plan
\* failed with "E".
C12_Witness ==
    \E c \in StepFailures :
        /\ c.op = "plan"
        /\ c.ran = <<"init", "plan">>
        /\ c.outputs = << <<"A">> >>
        /\ Contains(c.result.Error.msg, <<"A">>)
        /\ Contains(c.result.Error.msg, <<"E">>)

\* The calls that have been through the step pipeline.
PipelineCalls == {c \in InFlight : c.exit \in {"success", "stepErr"}}

\* The positions of c.steps whose runner returns an error when run.
FailingSteps(c) ==
    {i \in 1..Len(c.steps) : c.steps[i] \in KnownSteps /\ ~c.outcomes[i].err.nil}

\* The position at which the pipeline of c must end: the first failing step,
\* or the last step when none fails.
LastStep(c) ==
    IF FailingSteps(c) = {} THEN Len(c.steps)
    ELSE CHOOSE i \in FailingSteps(c) : \A j \in FailingSteps(c) : i <= j

\* The non-empty outputs of the runnable steps among the first k of c.
RECURSIVE OutputsUpTo(_, _)
OutputsUpTo(c, k) ==
    IF k = 0 THEN <<>>
    ELSE IF c.steps[k] \in KnownSteps /\ c.outcomes[k].out # EmptyStr
         THEN Append(OutputsUpTo(c, k - 1), c.outcomes[k].out)
         ELSE OutputsUpTo(c, k - 1)

IsKnownStep(name) == name \in KnownSteps

\* C13: the pipeline dispatches the steps of the stage in list order and
\* ends at the first step whose runner returns an error: the steps
\* dispatched are exactly the runnable steps up to that one, none after it;
\* it returns that error, or none when no step fails, with the outputs
\* collected up to there in execution order.
C13_StepsInOrderUntilFirstError ==
    \A c \in PipelineCalls :
        /\ c.ran = SelectSeq(SubSeq(c.steps, 1, LastStep(c)), IsKnownStep)
        /\ c.outputs = OutputsUpTo(c, LastStep(c))
        /\ (c.exit = "stepErr") <=> (FailingSteps(c) # {})
        /\ (c.pc = "done" /\ c.exit = "stepErr") =>
               Contains(c.result.Error.msg, c.outcomes[LastStep(c)].err.msg)

\* A pipeline of three steps ended at its failing second step, the third
\* one, which would have failed too, not dispatched.
C13_Witness ==
    \E c \in PipelineCalls :
        /\ c.steps = <<"init", "plan", "run">>
        /\ FailingSteps(c) = {2, 3}
        /\ c.ran = <<"init", "plan">>
        /\ c.outputs = << <<"B">>, <<"A">> >>
        /\ c.exit = "stepErr"

\* The Plan calls that returned a PlanSuccess.
PlanSuccesses ==
    {c \in InFlight : c.op = "plan" /\ c.pc = "done" /\ ~c.result.PlanSuccess.nil}

\* C14: a Plan that returns PlanSuccess has never invoked the project
\* lock's release function; when it returns, the project lock of its
\* (repository, directory, workspace) is held by its pull request, the
\* LockURL of the result is generated from the lock attempt's LockKey, and
\* the working-directory lock was released.
C14_PlanSuccessKeepsProjectLock ==
    \A c \in PlanSuccesses :
        /\ c.unlockFnCalls = 0
        /\ c.LockAcquired
        /\ c.LockKey = ProjectKey(c)
        /\ c.result.PlanSuccess.LockURL = GenerateLockURL(c.LockKey)
        /\ c.wdUnlocks = 1 /\ ~c.wdHeld
        /\ projLocks[ProjectKey(c)] = c.pull

\* The Apply calls that returned after going through the step pipeline.
AppliesRun ==
    {c \in InFlight : c.op = "apply" /\ c.pc = "done" /\ c.exit \in {"success", "stepErr"}}

\* C15: the ProjectResult an Apply returns after its pipeline is a function
\* of the steps and of what their runners returned alone: it is the same
\* whether Webhooks.Send returned nil or an error.
C15_WebhookFailureLeavesResult ==
    \A c \in AppliesRun :
        LET r == runSteps(c.steps, c.outcomes)
        IN /\ Len(c.hooks) = 1
           /\ c.result.Failure = EmptyStr
           /\ c.result.PlanSuccess.nil
           /\ c.result.Error.nil <=> r.err.nil
           /\ r.err.nil => c.result.ApplySuccess = Join(r.outputs)
           /\ ~r.err.nil => /\ c.result.ApplySuccess = EmptyStr
                            /\ c.result.Error = StepsErrorf(r.err, r.outputs)

\* An Apply whose steps succeeded returned its output although the webhook
\* could not be delivered.
C15_Witness ==
    \E c \in AppliesRun :
        /\ c.hooks[1].sendErr
        /\ c.exit = "success"
        /\ c.result.ApplySuccess = <<"A">>
        /\ c.result.Error.nil

\* C16: PullIsApproved answers true exactly when the pull request fetched
\* is approved, and false with the fetch error when the fetch fails; so an
\* Apply under the "approved" requirement goes on to its steps only for an
\* approved pull request.
C16_PullIsApprovedWhenApproved ==
    \A c \in InFlight :
        /\ \A i \in 1..Len(c.checked) :
             LET k == c.checked[i]
             IN /\ k.request.err.nil =>
                     (k.err.nil /\ (k.approved <=> k.request.Approved))
                /\ ~k.request.err.nil =>
                     (~k.approved /\ k.err = k.request.err)
        /\ (c.approvalChecks > 0 /\ c.exit \in {"success", "stepErr"}) =>
              \A i \in 1..Len(c.checked) : c.checked[i].request.Approved

\* C17: an Apply that reaches the step pipeline has sent exactly one webhook
\* when it returns, with Success true exactly when no step returned an
\* error, and none before its steps ran; an Apply that returns earlier, and
\* every Plan, sends none.
C17_ExactlyOneWebhook ==
    \A c \in InFlight :
        /\ (c.op = "apply" /\ c.exit \in {"success", "stepErr"}) =>
              /\ c.pc = "done"
              /\ Len(c.hooks) = 1
              /\ c.hooks[1].Success <=> (FailingSteps(c) = {})
              /\ c.hooks[1].Success <=> (c.exit = "success")
        /\ ~(c.op = "apply" /\ c.exit \in {"success", "stepErr"}) =>
              c.hooks = <<>>

\* An Apply whose step failed has sent its one webhook, Success false.
C17_Witness ==
    \E c \in InFlight :
        /\ c.op = "apply" /\ c.pc = "done" /\ c.exit = "stepErr"
        /\ FailingSteps(c) # {}
        /\ Len(c.hooks) = 1 /\ ~c.hooks[1].Success

\* The Apply calls that found their working directory.
AppliesGated == {c \in InFlight : c.op = "apply" /\ c.exit \notin {"notCloned", "lookupErr"}}

IsApproved(req) == req = ApprovedApplyRequirement

\* C18: the requirements an Apply evaluates are the list of its project
\* configuration, none without a configuration, and the single "approved"
\* when RequireApprovalOverride is set, whatever the configuration; they
\* are evaluated in order, one approval check per "approved" evaluated, so
\* once they all passed the check was made exactly once under the override
\* and, without it, only if the configuration lists "approved".
C18_OverrideReplacesRequirements ==
    \A c \in AppliesGated :
        LET eff == IF RequireApprovalOverride THEN <<ApprovedApplyRequirement>>
                   ELSE IF c.config.nil THEN <<>>
                   ELSE c.config.ApplyRequirements
            consumed == Len(eff) - Len(c.reqs)
            stopped == c.exit \in {"notApproved", "approvalErr"}
        IN /\ consumed >= 0
           /\ c.reqs = SubSeq(eff, consumed + 1, Len(eff))
           /\ c.approvalChecks =
                 Len(SelectSeq(SubSeq(eff, 1, consumed), IsApproved))
                 + (IF stopped THEN 1 ELSE 0)
           /\ stopped => (c.reqs # <<>> /\ Head(c.reqs) = ApprovedApplyRequirement)
           /\ (c.pc = "runSteps" \/ c.exit \in {"success", "stepErr", "wdLockErr"}) =>
                 /\ c.reqs = <<>>
                 /\ RequireApprovalOverride => c.approvalChecks = 1
                 /\ ~RequireApprovalOverride =>
                       (c.approvalChecks > 0 <=>
                           (~c.config.nil /\ \E i \in 1..Len(c.config.ApplyRequirements) :
                               c.config.ApplyRequirements[i] = ApprovedApplyRequirement))

\* Under the override an Apply whose configuration lists "mergeable" and
\* "approved" has checked the approval once and holds the lock to run.
C18_Witness ==
    \E c \in AppliesGated :
        /\ RequireApprovalOverride
        /\ c.config.ApplyRequirements = <<"mergeable", ApprovedApplyRequirement>>
        /\ c.pc = "runSteps"
        /\ c.approvalChecks = 1

\* The Apply calls one of whose approval checks returned an error.
ApprovalCheckErrors ==
    {c \in InFlight : \E i \in 1..Len(c.checked) : ~c.checked[i].err.nil}

\* C19: an Apply whose approval check returns an error returns an error
\* wrapping the check's error, with an empty failure reason, and has asked
\* for no working-directory lock, run no step and sent no webhook.
C19_ApprovalCheckErrorIsAnError ==
    \A c \in ApprovalCheckErrors :
        LET k == c.checked[Len(c.checked)]
        IN /\ c.op = "apply" /\ c.exit = "approvalErr"
           /\ ~k.err.nil
           /\ ~c.result.Error.nil
           /\ Contains(c.result.Error.msg, k.err.msg)
           /\ Contains(c.result.Error.msg, <<"checking if pull request was approved">>)
           /\ c.result.Failure = EmptyStr
           /\ c.result.Failure # NotApprovedReason
           /\ GatedOut(c)

\* An Apply returned the error of its failed approval check.
C19_Witness ==
    \E c \in ApprovalCheckErrors :
        /\ c.pc = "done" /\ c.exit = "approvalErr"
        /\ c.approvalChecks = 1
        /\ ~c.result.Error.nil

\* A step of an Apply call, from its arrival to the return of its result:
\* an Apply call comes to a new position, or its result is taken.
ApplyStep ==
    \/ \E d \in BagToSet(calls') :
          d.op = "apply" /\ CopiesIn(d, calls') > CopiesIn(d, calls)
    \/ \E c \in InFlight :
          /\ c.op = "apply" /\ c.pc = "done"
          /\ calls' = calls (-) SetToBag({c})

\* C20: no step of an Apply changes the project locks, and an Apply never
\* asks for a project lock nor invokes a release function.
C20_ApplyLeavesProjectLocks ==
    /\ [][ApplyStep => projLocks' = projLocks]_vars
    /\ [](\A c \in InFlight :
            c.op = "apply" => (~c.LockAcquired /\ c.LockKey = <<>> /\ c.unlockFnCalls = 0))

\* An Apply whose step failed has returned while pull request 1 holds the
\* project lock it planned under.
C20_Witness ==
    \E c \in InFlight :
        /\ c.op = "apply" /\ c.pc = "done" /\ c.exit = "stepErr"
        /\ c.pull = 1
        /\ projLocks[ProjectKey(c)] = 1

\* C21: a Plan call invokes the release function of its lock attempt at
\* most once and only when the attempt reported the lock acquired: once on
\* the clone-failure exit, where no step was run, once on the step-failure
\* exit, where the clone had succeeded, and never on the success exit nor
\* on the exits that precede the clone.
C21_UnlockFnAtMostOnce ==
    \A c \in InFlight :
        c.op = "plan" =>
            /\ c.unlockFnCalls <= 1
            /\ c.unlockFnCalls = 1 =>
                  /\ c.LockAcquired
                  /\ c.exit \in {"cloneErr", "stepErr"}
            /\ c.exit = "cloneErr" => (c.unlockFnCalls = 1 /\ c.ran = <<>> /\ c.steps = <<>>)
            /\ c.exit = "stepErr" => (c.unlockFnCalls = 1 /\ c.clones = 1 /\ c.err # NilErr)
            /\ c.exit \in {"success", "lockErr", "notAcquired", "wdLockErr", "none"} =>
                  c.unlockFnCalls = 0

\* A Plan whose step failed after a successful clone is about to return,
\* having released the project lock once.
C21_Witness ==
    \E c \in InFlight :
        /\ c.op = "plan" /\ c.exit = "stepErr"
        /\ c.LockAcquired /\ c.clones = 1
        /\ c.unlockFnCalls = 1

\* The positions of the steps of c that name a step runner, in order.
KnownPositions(c) ==
    SelectSeq([i \in 1..Len(c.steps) |-> i], LAMBDA i : c.steps[i] \in KnownSteps)

\* The pipeline of c with the steps of unknown name taken out.
WithoutUnknown(c) ==
    LET pos == KnownPositions(c)
    IN [steps |-> [j \in 1..Len(pos) |-> c.steps[pos[j]]],
        outcomes |-> [j \in 1..Len(pos) |-> c.outcomes[pos[j]]]]

\* C22: the pipeline skips a step whose name is none of init, plan, apply
\* and run: it dispatches no runner for it and the call ends as if the step
\* were not in the list, with the same steps run in the same order, the
\* same outputs and the same error or success; a stage of unknown steps
\* only succeeds with empty output.
C22_UnknownStepsSkipped ==
    \A c \in PipelineCalls :
        LET k == WithoutUnknown(c)
            r == runSteps(k.steps, k.outcomes)
        IN /\ \A i \in 1..Len(c.ran) : c.ran[i] \in KnownSteps
           /\ c.ran = r.ran
           /\ c.outputs = r.outputs
           /\ (c.exit = "stepErr") <=> ~r.err.nil
           /\ (c.pc = "done" /\ c.exit = "stepErr") =>
                  c.result.Error = StepsErrorf(r.err, r.outputs)
           /\ k.steps = <<>> =>
                  /\ c.exit = "success" /\ c.ran = <<>> /\ c.outputs = <<>>
                  /\ c.pc = "done" =>
                        /\ c.result.Error.nil /\ c.result.Failure = EmptyStr
                        /\ c.result.ApplySuccess = EmptyStr
                        /\ c.op = "plan" =>
                              (/\ ~c.result.PlanSuccess.nil
                               /\ c.result.PlanSuccess.TerraformOutput = EmptyStr)

\* A pipeline whose first step has an unknown name, and would have printed
\* and failed had it been run, ran its second step and returned its output.
C22_Witness ==
    \E c \in PipelineCalls :
        /\ c.steps = <<"bogus", "run">>
        /\ c.outcomes[1].out = <<"B">> /\ ~c.outcomes[1].err.nil
        /\ c.ran = <<"run">>
        /\ c.outputs = << <<"A">> >>
        /\ c.exit = "success"

\* The Plan calls of a pull request that held the project lock already and
\* that failed at Clone or at a step.
FailedRePlans ==
    {c \in InFlight : /\ c.op = "plan" /\ c.regranted
                      /\ c.pc \in {"return", "done"}
                      /\ c.exit \in {"cloneErr", "stepErr"}}

\* C23: when a pull request that holds the project lock from an earlier
\* successful Plan plans again and the new Plan fails at Clone or at a step,
\* the lock is free afterwards: ProjectLocker grants it to any other pull
\* request, while the working copy of the first pull request is still there
\* and its Apply gets past the missing-clone check.
C23_FailedRePlanReleasesEarlierLock ==
    \A c \in FailedRePlans :
        /\ c.unlockFnCalls = 1
        /\ projLocks[ProjectKey(c)] = 0
        /\ \A q \in Pulls \ {c.pull} :
             \E a \in ProjectLockerTryLock(projLocks, ProjectKey(c), q) : a.LockAcquired
        /\ WorkingDirKey(c) \in cloned
        /\ \A r \in WorkingDirGetWorkingDir(cloned, WorkingDirKey(c)) : ~r.notExist
        /\ \E r \in WorkingDirGetWorkingDir(cloned, WorkingDirKey(c)) : r.err.nil

\* A second Plan of a pull request failed at a step after its clone, the
\* first one having succeeded.
C23_Witness ==
    \E c \in FailedRePlans :
        /\ c.exit = "stepErr" /\ c.pc = "done"
        /\ started = 2
        /\ projLocks[ProjectKey(c)] = 0
        /\ WorkingDirKey(c) \in cloned

\* What the runner of the k-th step of c returned, when that step was run.
StepOutput(c, k) == c.outcomes[k].out

\* C24: the outputs the pipeline returns are the non-empty outputs of the
\* steps it ran, in the order it ran them, the failing step's own output
\* last when it printed something; no entry is empty; the success text is
\* these outputs joined, and the error message holds them joined after the
\* failing step's error.
C24_OutputsAreNonEmptyInOrder ==
    \A c \in PipelineCalls :
        LET pos == SelectSeq(KnownPositions(c),
                             LAMBDA i : i <= LastStep(c) /\ StepOutput(c, i) # EmptyStr)
        IN /\ \A i \in 1..Len(c.outputs) : c.outputs[i] # EmptyStr
           /\ Len(c.outputs) = Len(pos)
           /\ \A j \in 1..Len(pos) : c.outputs[j] = StepOutput(c, pos[j])
           /\ (c.exit = "stepErr" /\ StepOutput(c, LastStep(c)) # EmptyStr) =>
                  (/\ c.outputs # <<>>
                   /\ c.outputs[Len(c.outputs)] = StepOutput(c, LastStep(c)))
           /\ (c.pc = "done" /\ c.exit = "success") =>
                  IF c.op = "plan"
                  THEN c.result.PlanSuccess.TerraformOutput = Join(c.outputs)
                  ELSE c.result.ApplySuccess = Join(c.outputs)
           /\ (c.pc = "done" /\ c.exit = "stepErr") =>
                  c.result.Error.msg =
                      c.outcomes[LastStep(c)].err.msg \o <<"\n">> \o Join(c.outputs)

\* A pipeline of three steps failed at its last step, which printed "B",
\* after a step that printed nothing and one that printed "A".
C24_Witness ==
    \E c \in PipelineCalls :
        /\ c.steps = <<"init", "plan", "run">>
        /\ StepOutput(c, 1) = EmptyStr
        /\ StepOutput(c, 2) = <<"A">>
        /\ StepOutput(c, 3) = <<"B">>
        /\ FailingSteps(c) = {3}
        /\ c.outputs = << <<"A">>, <<"B">> >>
        /\ c.pc = "done"

====
